---- MODULE Spec2Model ----
(***************************************************************************)
(* A model of the df-healthbench backend: the RAG orchestrator             *)
(* (services/rag.py) over the embedding table (crud/embedding.py), the     *)
(* summary cache (services/document.py, crud/document_summary.py,          *)
(* api/routes/llm.py) and the document table (crud/document.py).           *)
(*                                                                         *)
(* Texts are abstract: a document content is a code c, and the i-th chunk  *)
(* the chunker returns for it is the pair <<c, i>>.  Timestamps are the     *)
(* readings of one database clock.                                          *)
(***************************************************************************)
EXTENDS Integers, Sequences, FiniteSets, TLC

\* ------------------------------------------------------------------ bounds
NumDocs == 2
MaxChunks == 2
NumProcs == 2
MaxClock == 2

\* ------------------------------------------------------- program constants
\* generate_embeddings_batch rejects more than this many texts
BatchCap == 100

DocIds == 1..NumDocs
Procs == 1..NumProcs

\* Content codes: BlankContent is whitespace-only text (it passes the
\* schema's min_length and the chunker rejects it), a code n in 1..MaxChunks
\* is a text the chunker splits into n chunks, HugeContent one it splits
\* into more chunks than the provider's batch cap.
BlankContent == 0
HugeContent == BatchCap + 1
Contents == {BlankContent} \cup (1..MaxChunks) \cup {HugeContent}

NoDocument == [exists |-> FALSE, content |-> BlankContent, updated_at |-> 0]

VARIABLES
    documents,    \* documents table: id -> [exists, content, updated_at]
    embeddings,   \* document_embeddings table: document id -> rows in insert order
    erq,          \* embedding requests in flight: process -> call frame
    summaries,    \* document_summary table: document id -> rows in insert order
    now,          \* the database clock, func.now()
    srq,          \* summarize_document requests in flight: process -> call frame
    history,      \* per document: what the summarize calls so far achieved
    arq,          \* the answer_question request in flight: its call frame
    sq,           \* the direct search_similar_chunks call in flight
    cq,           \* the chunk_document call in flight: arguments and result
    svc,          \* the service singletons of the process and their callers
    nq,           \* the summarize_note call in flight: its call frame
    drq,         \* document request in flight: create or delete
    ccq          \* _split_by_character_count: the call in progress

vars ==
    <<documents, embeddings, erq, summaries, now, srq, history, arq, sq, cq, svc, nq, drq,
      ccq>>

embedVars == <<embeddings, erq>>
summaryVars == <<summaries, now, srq, history>>
answerVars == <<arq>>
searchVars == <<sq>>
chunkVars == <<cq>>
serviceVars == <<svc>>
noteVars == <<nq>>
docVars == <<drq>>
splitVars == <<ccq>>

\* ------------------------------------------------------------ crud layer
get_document(document_id) ==
    documents[document_id]

\* The listing of every document, in id order.
RECURSIVE ListFrom(_)
ListFrom(d) ==
    IF d > NumDocs THEN <<>>
    ELSE IF documents[d].exists THEN <<d>> \o ListFrom(d + 1)
    ELSE ListFrom(d + 1)

get_documents == ListFrom(1)

count_embeddings_by_document(document_id) ==
    Len(embeddings[document_id])

\* Mutant: the existence test is off by one.
document_has_embeddings_more_than_one(document_id) ==
    count_embeddings_by_document(document_id) > 1

document_has_embeddings(document_id) ==
    count_embeddings_by_document(document_id) > 0

\* Mutant: the forced delete removes nothing.
delete_embeddings_by_document_noop(document_id) ==
    embeddings

\* One bulk DELETE ... WHERE document_id = :id, committed.
delete_embeddings_by_document(document_id) ==
    [embeddings EXCEPT ![document_id] = <<>>]

\* Mutant: only the first row of the batch is committed.
create_embeddings_batch_first_row(document_id, embeddings_data) ==
    [embeddings EXCEPT ![document_id] = @ \o SubSeq(embeddings_data, 1, 1)]

\* One add_all + commit: the rows are appended to the table.
create_embeddings_batch(document_id, embeddings_data) ==
    [embeddings EXCEPT ![document_id] = @ \o embeddings_data]

\* --------------------------------------------------------------- chunker
\* chunk_document raises ValueError for content that is empty after strip.
ChunkRaises(content) == content = BlankContent

DocumentChunks(content) == [i \in 1..content |-> <<content, i>>]

\* ---------------------------------------------------- embedding provider
ProviderErrors ==
    {"EmbeddingRateLimitError", "EmbeddingTimeoutError",
     "EmbeddingConnectionError", "EmbeddingAPIError", "EmbeddingServiceError"}

\* Embedding vectors are unit vectors in one of six directions of a plane,
\* 60 degrees apart; a text is a tuple of numbers.
Directions == 0..5

\* The provider's vector for a text: the same text gets the same vector.
Embed(text) ==
    (IF Len(text) = 1 THEN text[1] ELSE 2 * text[1] + text[2])
        % Cardinality(Directions)

\* generate_embeddings_batch raises ValueError before any provider call
\* when the batch is empty or larger than the cap.
BatchRejected(texts) == Len(texts) = 0 \/ Len(texts) > BatchCap

\* ------------------------------------------------------ RAG orchestrator
\* Mutant: the chunk indices are numbered from one.
EmbeddingsData_one_based(chunks) ==
    [i \in 1..Len(chunks) |->
        [chunk_index |-> i, chunk_text |-> chunks[i],
         embedding |-> Embed(chunks[i])]]

\* embeddings_data of embed_document: enumerate(zip(chunks, embeddings)).
EmbeddingsData(chunks) ==
    [i \in 1..Len(chunks) |->
        [chunk_index |-> i - 1, chunk_text |-> chunks[i],
         embedding |-> Embed(chunks[i])]]

\* ------------------------------------------------- errors and HTTP status
\* The exception classes the services raise, each with its base class. The
\* two DocumentNotFoundError classes are told apart by their module.
BaseClass ==
    [e \in {"rag.DocumentNotFoundError", "NoEmbeddingsFoundError"}
        |-> "RAGServiceError"]
    @@ [e \in {"EmbeddingRateLimitError", "EmbeddingTimeoutError",
               "EmbeddingConnectionError", "EmbeddingAPIError"}
        |-> "EmbeddingServiceError"]
    @@ [e \in {"LLMRateLimitError", "LLMTimeoutError", "LLMConnectionError",
               "LLMAPIError"} |-> "LLMServiceError"]
    @@ [e \in {"RAGServiceError", "EmbeddingServiceError", "LLMServiceError",
               "document.DocumentNotFoundError", "ValueError",
               "AttributeError", "IntegrityError"} |-> "Exception"]

\* The classes an exception of class e is an instance of.
RECURSIVE Superclasses(_)
Superclasses(e) ==
    IF e = "Exception" THEN {e} ELSE {e} \cup Superclasses(BaseClass[e])

\* except cls: catches an exception of class e.
Catches(cls, e) == cls \in Superclasses(e)

\* The status the embed_document route answers with when the service call
\* ended with error e ("" for none): its except clauses in order. The
\* DocumentNotFoundError it names is the class of services/document.py.
embed_document_route(e) ==
    IF e = "" THEN 200
    ELSE IF Catches("document.DocumentNotFoundError", e) THEN 404
    ELSE IF Catches("RAGServiceError", e) THEN 500
    ELSE 500

\* The status of the embed_all route.
embed_all_route(e) ==
    IF e = "" THEN 200
    ELSE IF Catches("RAGServiceError", e) THEN 500
    ELSE 500

\* The status of the answer_question route.
answer_question_route(e) ==
    IF e = "" THEN 200
    ELSE IF Catches("ValueError", e) THEN 400
    ELSE IF Catches("NoEmbeddingsFoundError", e) THEN 503
    ELSE IF Catches("RAGServiceError", e) THEN 500
    ELSE 500

NoResult ==
    [document_id |-> 0, skipped |-> FALSE, chunks_created |-> 0,
     embeddings_created |-> 0, error |-> ""]

IdleFrame ==
    [pc |-> "idle", op |-> "", force |-> FALSE, document_id |-> 0,
     todo |-> <<>>, content |-> BlankContent, chunks |-> <<>>,
     result |-> NoResult, results |-> <<>>,
     listed |-> <<>>, documents_processed |-> 0, documents_skipped |-> 0,
     total_chunks |-> 0, total_embeddings |-> 0,
     pre |-> <<>>, calls |-> 0, writes |-> 0, status |-> 0]

\* The frame after the current embed_document call ended with result r:
\* a direct call ends the request, embed_all_documents appends the entry
\* (an exception is caught and recorded) and goes on with the next document.
Returned(f, r) ==
    LET entry == [r EXCEPT !.document_id = f.document_id] IN
    IF f.op = "embed_document"
    THEN [f EXCEPT !.pc = "done", !.result = entry,
                   !.status = embed_document_route(entry.error)]
    ELSE IF entry.error # ""
    THEN [f EXCEPT !.pc = "next", !.result = entry, !.results = @ \o <<entry>>]
    ELSE [f EXCEPT !.pc = "next", !.result = entry, !.results = @ \o <<entry>>,
                   !.total_chunks = @ + entry.chunks_created,
                   !.total_embeddings = @ + entry.embeddings_created,
                   !.documents_skipped = IF entry.skipped THEN @ + 1 ELSE @,
                   !.documents_processed = IF entry.skipped THEN @ ELSE @ + 1]

\* Mutant: an exception inside the loop of embed_all_documents ends the batch.
Raised_aborts_batch(f, e) ==
    LET entry == [NoResult EXCEPT !.error = e, !.document_id = f.document_id]
    IN [f EXCEPT !.pc = "done", !.result = entry, !.results = @ \o <<entry>>]

Raised(f, e) == Returned(f, [NoResult EXCEPT !.error = e])

\* The first statements of embed_document: the document is fetched.
Fetched(f, document_id) ==
    LET document == get_document(document_id)
        g == [f EXCEPT !.document_id = document_id,
                       !.content = document.content,
                       !.chunks = <<>>,
                       !.pre = embeddings[document_id],
                       !.calls = 0, !.writes = 0]
    IN IF ~document.exists
       THEN Raised(g, "rag.DocumentNotFoundError")
       ELSE [g EXCEPT !.pc = "check"]

StartEmbedDocument(p, document_id, force) ==
    /\ erq[p].pc = "idle"
    /\ erq' = [erq EXCEPT ![p] =
                 Fetched([IdleFrame EXCEPT !.op = "embed_document",
                                           !.force = force], document_id)]
    /\ UNCHANGED <<documents, embeddings, summaryVars, answerVars, searchVars, chunkVars,
                serviceVars, noteVars, docVars, splitVars>>

\* if not force and document_has_embeddings(...): return skipped
CheckExisting(p) ==
    LET f == erq[p] IN
    /\ f.pc = "check"
    /\ erq' = [erq EXCEPT ![p] =
                 IF ~f.force /\ document_has_embeddings(f.document_id)
                 THEN Returned(f, [NoResult EXCEPT !.skipped = TRUE])
                 ELSE [f EXCEPT !.pc = IF f.force THEN "delete" ELSE "embed"]]
    /\ UNCHANGED <<documents, embeddings, summaryVars, answerVars, searchVars, chunkVars,
                serviceVars, noteVars, docVars, splitVars>>

\* if force: delete_embeddings_by_document(...)
DeleteExisting(p) ==
    LET f == erq[p] IN
    /\ f.pc = "delete"
    /\ embeddings' = delete_embeddings_by_document(f.document_id)
    /\ erq' = [erq EXCEPT ![p] = [f EXCEPT !.pc = "embed", !.writes = @ + 1]]
    /\ UNCHANGED <<documents, summaryVars, answerVars, searchVars, chunkVars,
                serviceVars, noteVars, docVars, splitVars>>

\* chunk_document(...) and generate_embeddings_batch(chunks)
ChunkAndEmbed(p) ==
    LET f == erq[p] IN
    /\ f.pc = "embed"
    /\ IF ChunkRaises(f.content)
       THEN erq' = [erq EXCEPT ![p] = Raised(f, "ValueError")]
       ELSE LET chunks == DocumentChunks(f.content) IN
            IF BatchRejected(chunks)
            THEN erq' = [erq EXCEPT ![p] = Raised(f, "ValueError")]
            ELSE \E outcome \in {"ok"} \cup ProviderErrors :
                   LET g == [f EXCEPT !.calls = @ + 1] IN
                   erq' = [erq EXCEPT ![p] =
                             IF outcome = "ok"
                             THEN [g EXCEPT !.pc = "insert", !.chunks = chunks]
                             ELSE Raised(g, outcome)]
    /\ UNCHANGED <<documents, embeddings, summaryVars, answerVars, searchVars, chunkVars,
                serviceVars, noteVars, docVars, splitVars>>

\* create_embeddings_batch(...) and the result of embed_document
InsertBatch(p) ==
    LET f == erq[p]
        data == EmbeddingsData(f.chunks)
    IN
    /\ f.pc = "insert"
    /\ embeddings' = create_embeddings_batch(f.document_id, data)
    /\ erq' = [erq EXCEPT ![p] =
                 Returned([f EXCEPT !.writes = @ + 1],
                          [NoResult EXCEPT !.chunks_created = Len(f.chunks),
                                           !.embeddings_created = Len(data)])]
    /\ UNCHANGED <<documents, summaryVars, answerVars, searchVars, chunkVars,
                serviceVars, noteVars, docVars, splitVars>>

\* embed_all_documents: the listing is read once, then one embed_document
\* per listed document.
StartEmbedAll(p, force) ==
    /\ erq[p].pc = "idle"
    /\ erq' = [erq EXCEPT ![p] =
                 [IdleFrame EXCEPT !.pc = "next", !.op = "embed_all_documents",
                                   !.force = force, !.todo = get_documents,
                                   !.listed = get_documents]]
    /\ UNCHANGED <<documents, embeddings, summaryVars, answerVars, searchVars, chunkVars,
                serviceVars, noteVars, docVars, splitVars>>

NextDocument(p) ==
    LET f == erq[p] IN
    /\ f.pc = "next"
    /\ erq' = [erq EXCEPT ![p] =
                 IF f.todo = <<>>
                 THEN [f EXCEPT !.pc = "done", !.status = embed_all_route("")]
                 ELSE Fetched([f EXCEPT !.todo = Tail(@)], Head(f.todo))]
    /\ UNCHANGED <<documents, embeddings, summaryVars, answerVars, searchVars, chunkVars,
                serviceVars, noteVars, docVars, splitVars>>

\* The response is delivered and the worker is free again.
Finish(p) ==
    /\ erq[p].pc = "done"
    /\ erq' = [erq EXCEPT ![p] = IdleFrame]
    /\ UNCHANGED <<documents, embeddings, summaryVars, answerVars, searchVars, chunkVars,
                serviceVars, noteVars, docVars, splitVars>>

\* The steps of one embed_document request.
EmbedDocumentStep(p) ==
    \/ \E d \in DocIds, force \in BOOLEAN : StartEmbedDocument(p, d, force)
    \/ CheckExisting(p)
    \/ DeleteExisting(p)
    \/ ChunkAndEmbed(p)
    \/ InsertBatch(p)
    \/ Finish(p)

\* The steps of any embedding request.
EmbedStep(p) ==
    \/ EmbedDocumentStep(p)
    \/ \E force \in BOOLEAN : StartEmbedAll(p, force)
    \/ NextDocument(p)

\* ================================================= summary cache (4.6)
NumVariants == 2
NumSummaryDocs == 1

\* The documents that summarize requests and edits address.
SummaryDocIds == 1..NumSummaryDocs

NoUsage == [prompt_tokens |-> 0, completion_tokens |-> 0, total_tokens |-> 0]

\* A document_summary row as the table stores it: the server stamps
\* updated_at with the clock when the row is inserted and when it is updated.
SummaryRow(summary_text, model_used, token_usage) ==
    [summary_text |-> summary_text, model_used |-> model_used,
     token_usage |-> token_usage, updated_at |-> now]

HasSummary(document_id) == summaries[document_id] # <<>>

\* query(DocumentSummary).filter(document_id == ...).first()
get_summary_by_document_id(document_id) == summaries[document_id][1]

create_summary(document_id, summary_text, model_used, token_usage) ==
    [summaries EXCEPT ![document_id] =
        Append(@, SummaryRow(summary_text, model_used, token_usage))]

\* Mutant: an update in place keeps the row's old timestamp.
update_summary_keeps_timestamp(document_id, summary_text, model_used, token_usage) ==
    IF ~HasSummary(document_id)
    THEN summaries
    ELSE [summaries EXCEPT ![document_id][1] =
            [SummaryRow(summary_text, model_used, token_usage)
               EXCEPT !.updated_at = summaries[document_id][1].updated_at]]

update_summary(document_id, summary_text, model_used, token_usage) ==
    IF ~HasSummary(document_id)
    THEN summaries
    ELSE [summaries EXCEPT ![document_id][1] =
            SummaryRow(summary_text, model_used, token_usage)]

\* Mutant: the upsert always inserts.
create_or_update_summary_always_create(document_id, summary_text, model_used, token_usage) ==
    create_summary(document_id, summary_text, model_used, token_usage)

create_or_update_summary(document_id, summary_text, model_used, token_usage) ==
    IF HasSummary(document_id)
    THEN update_summary(document_id, summary_text, model_used, token_usage)
    ELSE create_summary(document_id, summary_text, model_used, token_usage)

NoCached ==
    [hit |-> FALSE, summary_text |-> <<>>, model_used |-> "",
     token_usage |-> NoUsage]

\* Mutant: a summary stamped at the document's own timestamp counts as stale.
check_summary_cache_strict(document_id, raises) ==
    LET document == get_document(document_id) IN
    IF raises \/ ~document.exists \/ ~HasSummary(document_id)
    THEN NoCached
    ELSE LET cached_summary == get_summary_by_document_id(document_id) IN
         IF cached_summary.updated_at > document.updated_at
         THEN [hit |-> TRUE, summary_text |-> cached_summary.summary_text,
               model_used |-> cached_summary.model_used,
               token_usage |-> cached_summary.token_usage]
         ELSE NoCached

\* DocumentService.check_summary_cache; raises: a lookup throws, which the
\* except clause turns into None.
check_summary_cache(document_id, raises) ==
    LET document == get_document(document_id) IN
    IF raises
    THEN NoCached
    ELSE IF ~document.exists
    THEN NoCached
    ELSE IF ~HasSummary(document_id)
    THEN NoCached
    ELSE LET cached_summary == get_summary_by_document_id(document_id) IN
         IF cached_summary.updated_at >= document.updated_at
         THEN [hit |-> TRUE, summary_text |-> cached_summary.summary_text,
               model_used |-> cached_summary.model_used,
               token_usage |-> cached_summary.token_usage]
         ELSE NoCached

\* The generation provider: for a text it answers with one of NumVariants
\* completions, or fails.
LLMResponses(content) ==
    {[summary |-> <<content, v>>,
      model_used |-> IF v = 1 THEN "gpt-5-nano" ELSE "gpt-4o",
      token_usage |-> [prompt_tokens |-> content, completion_tokens |-> v,
                       total_tokens |-> content + v],
      processing_time_ms |-> v] : v \in 1..NumVariants}

LLMErrors ==
    {"LLMRateLimitError", "LLMTimeoutError", "LLMConnectionError",
     "LLMAPIError", "LLMServiceError"}

NoGenerated ==
    [summary |-> <<>>, model_used |-> "", token_usage |-> NoUsage,
     processing_time_ms |-> 0]

NoResponse ==
    [from_cache |-> FALSE, summary |-> <<>>, model_used |-> "",
     token_usage |-> NoUsage, processing_time_ms |-> 0, error |-> ""]

IdleSummarize ==
    [pc |-> "idle", document_id |-> 0, content |-> BlankContent,
     generated |-> NoGenerated, response |-> NoResponse, llm_calls |-> 0,
     saved |-> ""]

NoHistory ==
    [saved_ok |-> FALSE, completed_ok |-> FALSE,
     last_text |-> <<>>, last_model |-> "", last_usage |-> NoUsage]

\* The response summarize_document builds from a cache hit.
CachedResponse(cached_result) ==
    [from_cache |-> TRUE, summary |-> cached_result.summary_text,
     model_used |-> IF cached_result.model_used = "" THEN "unknown"
                    ELSE cached_result.model_used,
     token_usage |-> cached_result.token_usage,
     processing_time_ms |-> 0, error |-> ""]

\* summarize_document, first statement: the cache is checked, and a hit is
\* returned at once.
StartSummarize(p, document_id, raises) ==
    LET cached_result == check_summary_cache(document_id, raises)
        f == [IdleSummarize EXCEPT !.document_id = document_id]
    IN
    /\ srq[p].pc = "idle"
    /\ IF cached_result.hit
       THEN /\ srq' = [srq EXCEPT ![p] =
                         [f EXCEPT !.pc = "done",
                                   !.response = CachedResponse(cached_result)]]
            /\ history' = [history EXCEPT ![document_id].completed_ok = TRUE]
       ELSE /\ srq' = [srq EXCEPT ![p] = [f EXCEPT !.pc = "read"]]
            /\ UNCHANGED history
    /\ UNCHANGED <<documents, embedVars, answerVars, searchVars, chunkVars, summaries, now,
                serviceVars, noteVars, docVars, splitVars>>

\* DocumentService.get_document_by_id
ReadDocument(p) ==
    LET f == srq[p]
        document == get_document(f.document_id)
    IN
    /\ f.pc = "read"
    /\ srq' = [srq EXCEPT ![p] =
                 IF ~document.exists
                 THEN [f EXCEPT !.pc = "done",
                                !.response.error = "document.DocumentNotFoundError"]
                 ELSE [f EXCEPT !.pc = "generate",
                                !.content = document.content]]
    /\ UNCHANGED <<documents, embedVars, answerVars, searchVars, chunkVars, summaries, now, history,
                serviceVars, noteVars, docVars, splitVars>>

\* llm_service.summarize_note(text=document.content)
Generate(p) ==
    LET f == srq[p] IN
    /\ f.pc = "generate"
    /\ IF f.content = BlankContent
       THEN srq' = [srq EXCEPT ![p] =
                      [f EXCEPT !.pc = "done", !.response.error = "ValueError"]]
       ELSE \/ \E r \in LLMResponses(f.content) :
                 srq' = [srq EXCEPT ![p] =
                           [f EXCEPT !.pc = "save", !.generated = r,
                                     !.llm_calls = @ + 1]]
            \/ \E e \in LLMErrors :
                 srq' = [srq EXCEPT ![p] =
                           [f EXCEPT !.pc = "done", !.response.error = e,
                                     !.llm_calls = @ + 1]]
    /\ UNCHANGED <<documents, embedVars, answerVars, searchVars, chunkVars, summaries, now, history,
                serviceVars, noteVars, docVars, splitVars>>

\* DocumentService.save_summary_cache and the response; raises: the upsert
\* throws, which save_summary_cache turns into False and the route ignores.
SaveCache(p, raises) ==
    LET f == srq[p]
        r == f.generated
        d == f.document_id
    IN
    /\ f.pc = "save"
    /\ IF raises
       THEN /\ UNCHANGED summaries
            /\ history' = [history EXCEPT ![d].completed_ok = TRUE]
       ELSE /\ summaries' = create_or_update_summary(d, r.summary, r.model_used,
                                                     r.token_usage)
            /\ history' = [history EXCEPT ![d] =
                             [saved_ok |-> TRUE, completed_ok |-> TRUE,
                              last_text |-> r.summary,
                              last_model |-> r.model_used,
                              last_usage |-> r.token_usage]]
    /\ srq' = [srq EXCEPT ![p] =
                 [f EXCEPT !.pc = "done",
                           !.saved = IF raises THEN "failed"
                                     ELSE IF HasSummary(d) THEN "updated"
                                     ELSE "created",
                           !.response = [from_cache |-> FALSE,
                                         summary |-> r.summary,
                                         model_used |-> r.model_used,
                                         token_usage |-> r.token_usage,
                                         processing_time_ms |-> r.processing_time_ms,
                                         error |-> ""]]]
    /\ UNCHANGED <<documents, embedVars, answerVars, searchVars, chunkVars, now,
                serviceVars, noteVars, docVars, splitVars>>

FinishSummarize(p) ==
    /\ srq[p].pc = "done"
    /\ srq' = [srq EXCEPT ![p] = IdleSummarize]
    /\ UNCHANGED <<documents, embedVars, answerVars, searchVars, chunkVars, summaries, now, history,
                serviceVars, noteVars, docVars, splitVars>>

\* crud update_document with new content: one UPDATE, which stamps
\* updated_at (onupdate=func.now()).
UpdateDocument(document_id, content) ==
    /\ documents[document_id].exists
    /\ documents' = [documents EXCEPT ![document_id] =
                       [exists |-> TRUE, content |-> content, updated_at |-> now]]
    /\ history' = [history EXCEPT ![document_id].saved_ok = FALSE,
                                  ![document_id].completed_ok = FALSE]
    /\ UNCHANGED <<embedVars, answerVars, searchVars, chunkVars, summaries, now, srq,
                serviceVars, noteVars, docVars, splitVars>>

\* The database clock advances.
Tick ==
    /\ now < MaxClock
    /\ now' = now + 1
    /\ UNCHANGED <<documents, embedVars, answerVars, searchVars, chunkVars, summaries, srq, history,
                serviceVars, noteVars, docVars, splitVars>>

SummarizeStep(p) ==
    \/ \E d \in SummaryDocIds, raises \in BOOLEAN : StartSummarize(p, d, raises)
    \/ ReadDocument(p)
    \/ Generate(p)
    \/ \E raises \in BOOLEAN : SaveCache(p, raises)
    \/ FinishSummarize(p)

\* ===================================================== question answering
NumQuestions == 2
rag_top_k == 3
NoTopK == 0
NoThreshold == -1

\* A question is a text: empty, whitespace only, or one of NumQuestions
\* questions.
EmptyQuestion == <<>>
WhitespaceQuestion == <<0>>
Questions ==
    {EmptyQuestion, WhitespaceQuestion} \cup {<<k>> : k \in 1..NumQuestions}

\* not question or not question.strip()
QuestionIsBlank(question) == question \in {EmptyQuestion, WhitespaceQuestion}

\* Similarity thresholds of a request, in hundredths; NoThreshold is None.
Thresholds == {NoThreshold, 50, 100}
TopKs == {NoTopK, 1}
Models == {"", "gpt-5-mini"}

\* Every row of document_embeddings, as <<document_id, position>>.
StoredRows ==
    UNION {{<<d, k>> : k \in DOMAIN embeddings[d]} : d \in DocIds}

\* Mutant: the documents are counted, not the embeddings.
count_embeddings_counts_documents ==
    Cardinality({d \in DocIds : documents[d].exists})

\* func.count(DocumentEmbedding.id)
count_embeddings == Cardinality(StoredRows)

\* pgvector's cosine distance (<=>) between two directions, in hundredths.
cosine_distance(a, b) ==
    LET diff == IF a >= b THEN a - b ELSE b - a
        steps == IF 2 * diff > Cardinality(Directions)
                 THEN Cardinality(Directions) - diff ELSE diff
    IN <<0, 50, 150, 200>>[steps + 1]

\* distance_threshold = 2 * (1 - similarity_threshold), in hundredths.
DistanceThreshold(similarity_threshold) == 2 * (100 - similarity_threshold)

\* similarity = 1 - distance / 2, in hundredths.
Similarity(distance) == 100 - distance \div 2

RowDistance(r, query_embedding) ==
    cosine_distance(embeddings[r[1]][r[2]].embedding, query_embedding)

\* Mutant: a row exactly at the distance threshold is left out.
Selected_strictly_within(query_embedding, similarity_threshold) ==
    {r \in StoredRows :
        /\ documents[r[1]].exists
        /\ \/ similarity_threshold = NoThreshold
           \/ RowDistance(r, query_embedding)
                 < DistanceThreshold(similarity_threshold)}

\* Mutant: the threshold filter is not applied.
Selected_unfiltered(query_embedding, similarity_threshold) ==
    {r \in StoredRows : documents[r[1]].exists}

\* The rows the query selects: joined with their document and, when a
\* threshold is given, within the distance threshold.
Selected(query_embedding, similarity_threshold) ==
    {r \in StoredRows :
        /\ documents[r[1]].exists
        /\ \/ similarity_threshold = NoThreshold
           \/ RowDistance(r, query_embedding)
                 <= DistanceThreshold(similarity_threshold)}

\* One element of a result list: the row (id is its place in the table)
\* and its similarity score.
SourceOf(r, query_embedding) ==
    [id |-> r,
     document_id |-> r[1],
     chunk_index |-> embeddings[r[1]][r[2]].chunk_index,
     chunk_text |-> embeddings[r[1]][r[2]].chunk_text,
     similarity_score |-> Similarity(RowDistance(r, query_embedding))]

\* Mutant: the order is by descending distance.
First_farthest(rows, query_embedding) ==
    {r \in rows : \A o \in rows :
        RowDistance(r, query_embedding) >= RowDistance(o, query_embedding)}

\* The rows that ORDER BY distance may put first.
First(rows, query_embedding) ==
    {r \in rows : \A o \in rows :
        RowDistance(r, query_embedding) <= RowDistance(o, query_embedding)}

RECURSIVE OrderByDistance(_, _)
\* order_by(text("distance")): every order the database may give the rows,
\* rows at the same distance being in any order.
OrderByDistance(rows, query_embedding) ==
    IF rows = {} THEN {<<>>}
    ELSE UNION {{<<r>> \o rest :
                    rest \in OrderByDistance(rows \ {r}, query_embedding)} :
                r \in First(rows, query_embedding)}

\* .limit(limit)
Limit(list, limit) ==
    SubSeq(list, 1, IF Len(list) < limit THEN Len(list) ELSE limit)

\* search_similar_chunks: filter, order by distance, limit, then convert
\* each distance to a similarity; the operator gives every list the query
\* can return.
search_similar_chunks(query_embedding, limit, similarity_threshold) ==
    {[i \in DOMAIN Limit(list, limit) |-> SourceOf(list[i], query_embedding)] :
        list \in OrderByDistance(
                    Selected(query_embedding, similarity_threshold),
                    query_embedding)}

NoAnswer ==
    [answer |-> "", sources |-> <<>>, model_used |-> "",
     token_usage |-> NoUsage, generation_time_ms |-> 0, error |-> ""]

IdleAnswer ==
    [pc |-> "idle", question |-> EmptyQuestion, top_k |-> NoTopK,
     similarity_threshold |-> NoThreshold, model |-> "",
     total_embeddings |-> 0, question_embedding |-> 0,
     similar_chunks |-> <<>>, response |-> NoAnswer,
     store_reads |-> 0, embed_calls |-> 0, llm_calls |-> 0, status |-> 0]

DefaultModel(model) == IF model = "" THEN "gpt-5-nano" ELSE model

\* The answer returned when the search finds nothing.
CannedAnswer(model) ==
    [answer |-> "I couldn't find any relevant information",
     sources |-> <<>>, model_used |-> DefaultModel(model),
     token_usage |-> NoUsage, generation_time_ms |-> 0, error |-> ""]

\* str.strip() on the texts of the model.
strip_text(s) ==
    CASE s = " " -> ""
      [] s = " generated\n" -> "generated"
      [] s = " a long note " -> "a long note"
      [] OTHER -> s

\* What the generation provider sends as choices[0].message.content: no
\* content at all (None), or a text, which may be empty or blank.
MessageTexts == {"", " ", "generated", " generated\n"}

MessageContents ==
    {[missing |-> TRUE, content |-> ""]}
    \cup {[missing |-> FALSE, content |-> c] : c \in MessageTexts}

\* What answer_question returns for the completions that carry a text, for a
\* prompt built from sources.
Completions(sources, model) ==
    {[answer |-> strip_text(c), sources |-> sources,
      model_used |-> DefaultModel(model),
      token_usage |-> [prompt_tokens |-> Len(sources),
                       completion_tokens |-> v,
                       total_tokens |-> Len(sources) + v],
      generation_time_ms |-> v, error |-> ""] :
        v \in 1..NumVariants, c \in MessageTexts}

AnswerRaised(f, e) ==
    [f EXCEPT !.pc = "done", !.response.error = e,
              !.status = answer_question_route(e)]

\* answer_question: the question is validated, and top_k defaults.
StartAnswer(question, top_k, similarity_threshold, model) ==
    LET f == [IdleAnswer EXCEPT
                !.question = question,
                !.top_k = IF top_k = NoTopK THEN rag_top_k ELSE top_k,
                !.similarity_threshold = similarity_threshold,
                !.model = model]
    IN
    /\ arq.pc = "idle"
    /\ arq' = IF QuestionIsBlank(question)
              THEN AnswerRaised(f, "ValueError")
              ELSE [f EXCEPT !.pc = "count"]
    /\ UNCHANGED <<documents, embedVars, summaryVars, searchVars, chunkVars,
                serviceVars, noteVars, docVars, splitVars>>

\* count_embeddings, and the guard on an empty store.
CountEmbeddings ==
    LET f == [arq EXCEPT !.total_embeddings = count_embeddings,
                         !.store_reads = @ + 1]
    IN
    /\ arq.pc = "count"
    /\ arq' = IF f.total_embeddings = 0
              THEN AnswerRaised(f, "NoEmbeddingsFoundError")
              ELSE [f EXCEPT !.pc = "embed"]
    /\ UNCHANGED <<documents, embedVars, summaryVars, searchVars, chunkVars,
                serviceVars, noteVars, docVars, splitVars>>

\* embedding_service.generate_embedding(question)
EmbedQuestion ==
    LET f == [arq EXCEPT !.embed_calls = @ + 1] IN
    /\ arq.pc = "embed"
    /\ \/ arq' = [f EXCEPT !.pc = "search",
                           !.question_embedding = Embed(f.question)]
       \/ \E e \in ProviderErrors : arq' = AnswerRaised(f, e)
    /\ UNCHANGED <<documents, embedVars, summaryVars, searchVars, chunkVars,
                serviceVars, noteVars, docVars, splitVars>>

\* search_similar_chunks, and the canned answer when it finds nothing.
SearchChunks ==
    LET f == [arq EXCEPT !.store_reads = @ + 1] IN
    /\ arq.pc = "search"
    /\ \E similar_chunks \in search_similar_chunks(f.question_embedding,
                                f.top_k, f.similarity_threshold) :
          arq' = IF similar_chunks = <<>>
                 THEN [f EXCEPT !.pc = "done",
                                !.response = CannedAnswer(f.model),
                                !.status = answer_question_route("")]
                 ELSE [f EXCEPT !.pc = "generate",
                                !.similar_chunks = similar_chunks]
    /\ UNCHANGED <<documents, embedVars, summaryVars, searchVars, chunkVars,
                serviceVars, noteVars, docVars, splitVars>>

\* llm_service._create_completion and the response.
GenerateAnswer ==
    LET f == [arq EXCEPT !.llm_calls = @ + 1] IN
    /\ arq.pc = "generate"
    /\ \/ \E r \in Completions(f.similar_chunks, f.model) :
             arq' = [f EXCEPT !.pc = "done", !.response = r,
                              !.status = answer_question_route("")]
       \/ \E m \in MessageContents :
             /\ m.missing
             /\ arq' = AnswerRaised(f, "AttributeError")
       \/ \E e \in LLMErrors : arq' = AnswerRaised(f, e)
    /\ UNCHANGED <<documents, embedVars, summaryVars, searchVars, chunkVars,
                serviceVars, noteVars, docVars, splitVars>>

FinishAnswer ==
    /\ arq.pc = "done"
    /\ arq' = IdleAnswer
    /\ UNCHANGED <<documents, embedVars, summaryVars, searchVars, chunkVars,
                serviceVars, noteVars, docVars, splitVars>>

\* --------------------------------- LLMService.summarize_note, called with
\* a text (as the summarize_note route calls it)
MinNoteLength == 10

NoteTexts == {"", " ", "short", "a long note", " a long note "}

NoSummary ==
    [summary |-> "", model_used |-> "", token_usage |-> NoUsage,
     processing_time_ms |-> 0, error |-> ""]

IdleNote ==
    [pc |-> "idle", text |-> "", model |-> "", result |-> NoSummary,
     llm_calls |-> 0]

\* summarize_note: the text is validated (not blank, and ten characters or
\* more after trimming).
StartNote(text, model) ==
    /\ nq.pc = "idle"
    /\ nq' = IF strip_text(text) = "" \/ Len(strip_text(text)) < MinNoteLength
             THEN [IdleNote EXCEPT !.pc = "done", !.text = text,
                      !.model = model, !.result.error = "ValueError"]
             ELSE [IdleNote EXCEPT !.pc = "complete", !.text = text,
                      !.model = model]
    /\ UNCHANGED <<documents, embedVars, summaryVars, answerVars, searchVars,
                   chunkVars, serviceVars, docVars, splitVars>>

\* summarize_note: the completion call, the test of its content and the
\* result.
CompleteNote ==
    LET f == [nq EXCEPT !.pc = "done", !.llm_calls = @ + 1] IN
    /\ nq.pc = "complete"
    /\ \/ \E m \in MessageContents, v \in 1..NumVariants :
             nq' = IF m.missing \/ m.content = ""
                   THEN [f EXCEPT !.result.error = "LLMAPIError"]
                   ELSE [f EXCEPT !.result =
                           [summary |-> strip_text(m.content),
                            model_used |-> DefaultModel(f.model),
                            token_usage |-> [prompt_tokens |-> 1,
                                             completion_tokens |-> v,
                                             total_tokens |-> 1 + v],
                            processing_time_ms |-> v, error |-> ""]]
       \/ \E e \in LLMErrors : nq' = [f EXCEPT !.result.error = e]
    /\ UNCHANGED <<documents, embedVars, summaryVars, answerVars, searchVars,
                   chunkVars, serviceVars, docVars, splitVars>>

FinishNote ==
    /\ nq.pc = "done"
    /\ nq' = IdleNote
    /\ UNCHANGED <<documents, embedVars, summaryVars, answerVars, searchVars,
                   chunkVars, serviceVars, docVars, splitVars>>

\* ------------------------------------------- search_similar_chunks, called
\* directly with a query vector (as the retrieval tests call it)
Limits == {1, 2}

IdleSearch ==
    [pc |-> "idle", op |-> "", query_embedding |-> 0, limit |-> 0,
     similarity_threshold |-> NoThreshold, results |-> <<>>,
     document_id |-> 0, count |-> 0]

SearchCall(query_embedding, limit, similarity_threshold) ==
    /\ sq.pc = "idle"
    /\ \E results \in search_similar_chunks(query_embedding, limit,
                                            similarity_threshold) :
          sq' = [IdleSearch EXCEPT
                   !.pc = "found", !.op = "search_similar_chunks",
                   !.query_embedding = query_embedding,
                   !.limit = limit,
                   !.similarity_threshold = similarity_threshold,
                   !.results = results]
    /\ UNCHANGED <<documents, embedVars, summaryVars, answerVars, chunkVars,
                serviceVars, noteVars, docVars, splitVars>>

\* A reader's count_embeddings: one SELECT count(...) on the committed rows.
ReadCount ==
    /\ sq.pc = "idle"
    /\ sq' = [IdleSearch EXCEPT !.pc = "found", !.op = "count_embeddings",
                                !.count = count_embeddings]
    /\ UNCHANGED <<documents, embedVars, summaryVars, answerVars, chunkVars,
                serviceVars, noteVars, docVars, splitVars>>

\* A reader's count_embeddings_by_document.
ReadCountByDocument(document_id) ==
    /\ sq.pc = "idle"
    /\ sq' = [IdleSearch EXCEPT
                !.pc = "found", !.op = "count_embeddings_by_document",
                !.document_id = document_id,
                !.count = count_embeddings_by_document(document_id)]
    /\ UNCHANGED <<documents, embedVars, summaryVars, answerVars, chunkVars,
                serviceVars, noteVars, docVars, splitVars>>

SearchReturn ==
    /\ sq.pc = "found"
    /\ sq' = IdleSearch
    /\ UNCHANGED <<documents, embedVars, summaryVars, answerVars, chunkVars,
                serviceVars, noteVars, docVars, splitVars>>

\* ============================================================ chunker (4.1)
\* A text is a sequence of characters, each a one-character string.
Whitespace == {" ", "\n"}
SentenceEnd == {".", "!", "?"}
SoapLabels == {"S", "O", "A", "P"}

RECURSIVE lstrip(_)
lstrip(s) ==
    IF s # <<>> /\ Head(s) \in Whitespace THEN lstrip(Tail(s)) ELSE s

RECURSIVE rstrip(_)
rstrip(s) ==
    IF s # <<>> /\ s[Len(s)] \in Whitespace
    THEN rstrip(SubSeq(s, 1, Len(s) - 1)) ELSE s

\* str.strip() that leaves the trailing whitespace in place.
strip_leading_only(s) == lstrip(s)

\* str.strip()
strip(s) == rstrip(lstrip(s))

\* s[a:b] of Python, for 0 <= a and b <= len(s): the characters a+1..b.
Slice(s, a, b) == SubSeq(s, a + 1, b)

\* The end (exclusive, 0-based) of the run of whitespace that starts at i.
RECURSIVE RunEnd(_, _)
RunEnd(s, i) ==
    IF i < Len(s) /\ s[i + 1] \in Whitespace THEN RunEnd(s, i + 1) ELSE i

\* The starts (0-based) at or after from of the matches of \n\s*\n : a
\* newline followed, within the same run of whitespace, by another newline.
ParagraphBreaks(s, from) ==
    {i \in from..(Len(s) - 1) :
        /\ s[i + 1] = "\n"
        /\ \E k \in (i + 2)..RunEnd(s, i) : s[k] = "\n"}

\* re.split(r'\n\s*\n', s) for the piece begun at position from: the
\* leftmost match is taken, as long as possible (up to the last newline of
\* its run of whitespace), and the scan goes on behind it.
RECURSIVE SplitParagraphsFrom(_, _)
SplitParagraphsFrom(s, from) ==
    LET breaks == ParagraphBreaks(s, from) IN
    IF breaks = {} THEN <<Slice(s, from, Len(s))>>
    ELSE LET i == CHOOSE b \in breaks : \A o \in breaks : b <= o
             newlines == {k \in (i + 2)..RunEnd(s, i) : s[k] = "\n"}
             last == CHOOSE k \in newlines : \A o \in newlines : o <= k
         IN <<Slice(s, from, i)>> \o SplitParagraphsFrom(s, last)

\* [p.strip() for p in pieces if p.strip()]
RECURSIVE StripNonEmpty(_)
StripNonEmpty(pieces) ==
    IF pieces = <<>> THEN <<>>
    ELSE (IF strip(Head(pieces)) = <<>> THEN <<>> ELSE <<strip(Head(pieces))>>)
         \o StripNonEmpty(Tail(pieces))

\* The starts (0-based) at or after from of the matches of (?<=[.!?])\s+ :
\* a whitespace character that follows a sentence end.
SentenceBreaks(s, from) ==
    {i \in from..(Len(s) - 1) :
        i > 0 /\ s[i] \in SentenceEnd /\ s[i + 1] \in Whitespace}

\* re.split(r'(?<=[.!?])\s+', s) for the piece begun at position from: a
\* match is the whole run of whitespace behind a sentence end.
RECURSIVE SplitSentencesFrom(_, _)
SplitSentencesFrom(s, from) ==
    LET breaks == SentenceBreaks(s, from) IN
    IF breaks = {} THEN <<Slice(s, from, Len(s))>>
    ELSE LET i == CHOOSE b \in breaks : \A o \in breaks : b <= o
         IN <<Slice(s, from, i)>> \o SplitSentencesFrom(s, RunEnd(s, i))

\* The starts (0-based) of the matches of (?:^|\n)([SOAP]):\s* : a label and
\* a colon at the start of a line; the match may begin at the newline before.
SoapStarts(s) ==
    {q \in 0..(Len(s) - 2) :
        /\ q = 0 \/ s[q] = "\n"
        /\ s[q + 1] \in SoapLabels
        /\ s[q + 2] = ":"}

\* The loop shared by the paragraph and the sentence tiers: pieces are
\* joined with sep while the chunk stays within max_chunk_size; a chunk that
\* is closed hands its last overlap characters to the next one.
RECURSIVE Pack(_, _, _, _, _)
Pack(pieces, sep, max_chunk_size, overlap, current_chunk) ==
    IF pieces = <<>>
    THEN IF current_chunk # <<>> THEN <<strip(current_chunk)>> ELSE <<>>
    ELSE LET piece == Head(pieces) IN
         IF /\ current_chunk # <<>>
            /\ Len(current_chunk) + Len(piece) + Len(sep) > max_chunk_size
         THEN <<strip(current_chunk)>>
              \o Pack(Tail(pieces), sep, max_chunk_size, overlap,
                      IF overlap > 0 /\ Len(current_chunk) >= overlap
                      THEN strip(Slice(current_chunk,
                                       Len(current_chunk) - overlap,
                                       Len(current_chunk))) \o sep \o piece
                      ELSE piece)
         ELSE Pack(Tail(pieces), sep, max_chunk_size, overlap,
                   IF current_chunk # <<>>
                   THEN current_chunk \o sep \o piece ELSE piece)

\* A slice index of Python on a sequence of length n: a negative index
\* counts from the end, and the result is kept within 0..n.
SliceIndex(i, n) ==
    IF i < 0 THEN (IF i + n < 0 THEN 0 ELSE i + n)
    ELSE IF i > n THEN n ELSE i

\* content[start:end] of Python, for any integers start and end.
PySlice(content, start, end) ==
    SubSeq(content, SliceIndex(start, Len(content)) + 1,
           SliceIndex(end, Len(content)))

\* content.rfind(' ', start, end): the last space in the slice, or -1.
rfind_space(content, start, end) ==
    LET found == {k \in SliceIndex(start, Len(content))
                        ..(SliceIndex(end, Len(content)) - 1) :
                     content[k + 1] = " "}
    IN IF found = {} THEN -1
       ELSE CHOOSE k \in found : \A o \in found : o <= k

\* One iteration of the loop of _split_by_character_count from start: the
\* right edge, the chunk (empty when nothing is appended) and the next
\* start.
SplitIteration(content, max_chunk_size, overlap, start) ==
    LET limit == start + max_chunk_size
        last_space == rfind_space(content, start, limit)
        end == IF limit < Len(content) /\ last_space > start
               THEN last_space ELSE limit
    IN [end |-> end,
        chunk |-> strip(PySlice(content, start, end)),
        start |-> IF overlap > 0 THEN end - overlap ELSE end]

RECURSIVE split_by_character_count_from(_, _, _, _)
split_by_character_count_from(content, max_chunk_size, overlap, start) ==
    IF start >= Len(content) THEN <<>>
    ELSE LET it == SplitIteration(content, max_chunk_size, overlap, start)
         IN (IF it.chunk # <<>> THEN <<it.chunk>> ELSE <<>>)
            \o split_by_character_count_from(content, max_chunk_size, overlap,
                                             it.start)

split_by_character_count(content, max_chunk_size, overlap) ==
    split_by_character_count_from(content, max_chunk_size, overlap, 0)

split_by_sentences(content, max_chunk_size, overlap) ==
    LET sentences == SplitSentencesFrom(content, 0) IN
    IF sentences = <<>>
    THEN split_by_character_count(content, max_chunk_size, overlap)
    ELSE Pack(sentences, <<" ">>, max_chunk_size, overlap, <<>>)

\* The last loop of _split_by_paragraphs: a chunk over the size is split by
\* sentences.
RECURSIVE SplitLarge(_, _, _)
SplitLarge(chunks, max_chunk_size, overlap) ==
    IF chunks = <<>> THEN <<>>
    ELSE (IF Len(Head(chunks)) <= max_chunk_size
          THEN <<Head(chunks)>>
          ELSE split_by_sentences(Head(chunks), max_chunk_size, overlap))
         \o SplitLarge(Tail(chunks), max_chunk_size, overlap)

split_by_paragraphs(content, max_chunk_size, overlap) ==
    LET paragraphs == StripNonEmpty(SplitParagraphsFrom(content, 0)) IN
    IF paragraphs = <<>>
    THEN <<content>>
    ELSE SplitLarge(Pack(paragraphs, <<"\n", "\n">>, max_chunk_size, overlap,
                         <<>>),
                    max_chunk_size, overlap)

\* The sections taken from the last marker back to the first.
RECURSIVE SectionsFrom_last_first(_, _)
SectionsFrom_last_first(content, starts) ==
    IF starts = {} THEN <<>>
    ELSE LET start_pos == CHOOSE q \in starts : \A o \in starts : o <= q
             section_content == strip(Slice(content, start_pos, Len(content)))
         IN (IF section_content # <<>> THEN <<section_content>> ELSE <<>>)
            \o SectionsFrom_last_first(Slice(content, 0, start_pos),
                                       starts \ {start_pos})

\* The sections from each marker to the next, or none when fewer than two
\* markers are found.
RECURSIVE SectionsFrom(_, _)
SectionsFrom(content, starts) ==
    IF starts = {} THEN <<>>
    ELSE LET start_pos == CHOOSE q \in starts : \A o \in starts : q <= o
             later == starts \ {start_pos}
             end_pos == IF later = {} THEN Len(content)
                        ELSE CHOOSE q \in later : \A o \in later : q <= o
             section_content == strip(Slice(content, start_pos, end_pos))
         IN (IF section_content # <<>> THEN <<section_content>> ELSE <<>>)
            \o SectionsFrom(content, later)

split_by_soap_sections(content, max_chunk_size) ==
    IF Cardinality(SoapStarts(content)) < 2
    THEN <<>>
    ELSE SectionsFrom(content, SoapStarts(content))

\* The loop of chunk_document over the sections: a section over the size is
\* split by paragraphs.
RECURSIVE SplitSections(_, _, _)
SplitSections(sections, max_chunk_size, overlap) ==
    IF sections = <<>> THEN <<>>
    ELSE (IF Len(Head(sections)) <= max_chunk_size
          THEN <<Head(sections)>>
          ELSE split_by_paragraphs(Head(sections), max_chunk_size, overlap))
         \o SplitSections(Tail(sections), max_chunk_size, overlap)

MinChunkSize == 100

\* The argument checks without the minimum size.
ArgumentError_no_minimum(content, max_chunk_size, overlap) ==
    IF strip(content) = <<>> \/ overlap >= max_chunk_size
    THEN "ValueError" ELSE ""

\* The argument checks with an overlap check that lets overlap equal the size.
ArgumentError_overlap_may_equal(content, max_chunk_size, overlap) ==
    IF \/ strip(content) = <<>>
       \/ max_chunk_size < MinChunkSize
       \/ overlap > max_chunk_size
    THEN "ValueError" ELSE ""

\* The checks at the head of chunk_document: the error raised, "" for none.
ArgumentError(content, max_chunk_size, overlap) ==
    IF strip(content) = <<>> THEN "ValueError"
    ELSE IF max_chunk_size < MinChunkSize THEN "ValueError"
    ELSE IF overlap >= max_chunk_size THEN "ValueError"
    ELSE ""

\* chunk_document: the error it raises ("" for none) and the chunks.
chunk_document(content, max_chunk_size, overlap, preserve_sections) ==
    IF ArgumentError(content, max_chunk_size, overlap) # ""
    THEN [error |-> ArgumentError(content, max_chunk_size, overlap),
          chunks |-> <<>>]
    ELSE LET text == strip(content)
             soap_chunks == split_by_soap_sections(text, max_chunk_size)
         IN [error |-> "",
             chunks |->
                IF Len(text) <= max_chunk_size THEN <<text>>
                ELSE IF preserve_sections /\ soap_chunks # <<>>
                THEN SplitSections(soap_chunks, max_chunk_size, overlap)
                ELSE split_by_paragraphs(text, max_chunk_size, overlap)]

\* ------------------------------------------------ the texts that are chunked
MaxWords == 3

Letters == <<"a", "b", "c", "d", "e">>

\* The k-th word of a text: n times the k-th letter.
Word(k, n) == [i \in 1..n |-> Letters[k]]

WordLens == {30, 90}

\* What stands between two words: a space, a sentence end, a paragraph
\* break, or a line break and a section marker.
Separators ==
    {<<" ">>, <<".", " ">>, <<"\n", "\n">>, <<"\n", "O", ":", " ">>}

\* What stands before and after the words: nothing, a section marker
\* before, or whitespace on both sides.
Paddings ==
    {<<<<>>, <<>>>>, <<<<"S", ":", " ">>, <<>>>>,
     <<<<" ", "\n">>, <<".", "\n">>>>}

\* The texts of k words, without prefix and suffix.
RECURSIVE Bodies(_)
Bodies(k) ==
    IF k = 1 THEN {Word(1, n) : n \in WordLens}
    ELSE {b \o sep \o Word(k, n) :
             b \in Bodies(k - 1), sep \in Separators, n \in WordLens}

\* The note of the structure-preservation scenario.
SoapExample ==
    <<"S", ":", " ", "f", "e", "v", "e", "r", "\n", "\n",
      "O", ":", " ", "t", "e", "m", "p", " ", "1", "0", "1", "\n", "\n",
      "A", ":", " ", "v", "i", "r", "a", "l", " ",
      "i", "l", "l", "n", "e", "s", "s", "\n", "\n",
      "P", ":", " ", "r", "e", "s", "t">>

Texts ==
    {<<>>, <<" ", "\n">>, SoapExample}
    \cup {pad[1] \o b \o pad[2] :
             pad \in Paddings, b \in UNION {Bodies(k) : k \in 1..MaxWords}}

\* The <<max_chunk_size, overlap>> of a call: valid ones, a size under the
\* minimum (with a smaller and with a larger overlap), an overlap as large
\* as the size, and a negative overlap.
Arguments ==
    {<<100, 0>>, <<100, 20>>, <<150, 20>>, <<10, 0>>, <<10, 20>>,
     <<100, 100>>, <<100, -1>>}

IdleChunk ==
    [pc |-> "idle", content |-> <<>>, max_chunk_size |-> 0, overlap |-> 0,
     preserve_sections |-> FALSE, error |-> "", chunks |-> <<>>]

\* One call of chunk_document.
ChunkCall(content, max_chunk_size, overlap, preserve_sections) ==
    LET r == chunk_document(content, max_chunk_size, overlap,
                            preserve_sections)
    IN
    /\ cq.pc = "idle"
    /\ cq' = [pc |-> "returned", content |-> content,
              max_chunk_size |-> max_chunk_size, overlap |-> overlap,
              preserve_sections |-> preserve_sections,
              error |-> r.error, chunks |-> r.chunks]
    /\ UNCHANGED <<documents, embedVars, summaryVars, answerVars, searchVars,
                serviceVars, noteVars, docVars, splitVars>>

ChunkReturn ==
    /\ cq.pc = "returned"
    /\ cq' = IdleChunk
    /\ UNCHANGED <<documents, embedVars, summaryVars, answerVars, searchVars,
                serviceVars, noteVars, docVars, splitVars>>

\* ================================== fixed-width splitting, step by step
\* The texts and arguments _split_by_character_count is called with: every
\* non-empty text of letters and spaces up to MaxLen characters, every
\* max_chunk_size up to MaxSize and every overlap under it.
MaxLen == 6
MaxSize == 4

RECURSIVE TextsOfLength(_)
TextsOfLength(n) ==
    IF n = 0 THEN {<<>>}
    ELSE {t \o <<c>> : t \in TextsOfLength(n - 1), c \in {"a", " "}}

SplitTexts == UNION {TextsOfLength(n) : n \in 1..MaxLen}

SplitArguments ==
    {a \in (1..MaxSize) \X (0..(MaxSize - 1)) : a[2] < a[1]}

\* The iterations of a call are counted up to MaxIterations.
MaxIterations == MaxLen + 2

IdleSplit ==
    [pc |-> "idle", content |-> <<>>, max_chunk_size |-> 0, overlap |-> 0,
     start |-> 0, end |-> 0, appended |-> 0, iterations |-> 0]

\* chunks = []; start = 0
SplitCall(content, max_chunk_size, overlap) ==
    /\ ccq.pc = "idle"
    /\ ccq' = [IdleSplit EXCEPT !.pc = "loop", !.content = content,
                                !.max_chunk_size = max_chunk_size,
                                !.overlap = overlap]
    /\ UNCHANGED <<documents, embedVars, summaryVars, answerVars, searchVars,
                chunkVars, serviceVars, noteVars, docVars>>

\* One pass through the body of `while start < len(content)`.
SplitLoop ==
    LET it == SplitIteration(ccq.content, ccq.max_chunk_size, ccq.overlap,
                             ccq.start)
    IN
    /\ ccq.pc = "loop"
    /\ ccq.start < Len(ccq.content)
    /\ ccq' = [ccq EXCEPT
                 !.start = it.start, !.end = it.end,
                 !.appended = IF it.chunk = <<>> \/ @ = MaxIterations
                              THEN @ ELSE @ + 1,
                 !.iterations = IF @ = MaxIterations THEN @ ELSE @ + 1]
    /\ UNCHANGED <<documents, embedVars, summaryVars, answerVars, searchVars,
                chunkVars, serviceVars, noteVars, docVars>>

\* The loop condition is false: return chunks.
SplitExit ==
    /\ ccq.pc = "loop"
    /\ ccq.start >= Len(ccq.content)
    /\ ccq' = [ccq EXCEPT !.pc = "returned"]
    /\ UNCHANGED <<documents, embedVars, summaryVars, answerVars, searchVars,
                chunkVars, serviceVars, noteVars, docVars>>

SplitReturn ==
    /\ ccq.pc = "returned"
    /\ ccq' = IdleSplit
    /\ UNCHANGED <<documents, embedVars, summaryVars, answerVars, searchVars,
                chunkVars, serviceVars, noteVars, docVars>>

\* ============================================= service singletons (5)
\* get_embedding_service and get_llm_service: the same code over two module
\* globals. An instance is named by the number of its construction; 0 is
\* None.
Services == {"embedding", "llm"}

NumThreads == 2

Threads == 1..NumThreads

\* The calls one thread makes.
MaxCalls == 2

NoInstance == 0

IdleGetter ==
    [pc |-> "idle", service |-> "", created |-> NoInstance, calls |-> 0]

\* The process before the first call: both globals None; openai_api_key is
\* set or not for the life of the process; handed[s] collects the instances
\* the getter of s has returned.
NoServices(openai_api_key) ==
    [openai_api_key |-> openai_api_key,
     instance |-> [s \in Services |-> NoInstance],
     constructed |-> [s \in Services |-> 0],
     handed |-> [s \in Services |-> {}],
     failed |-> [s \in Services |-> 0],
     getter |-> [t \in Threads |-> IdleGetter]]

\* A thread calls the getter of service s.
CallGetter(t, s) ==
    /\ svc.getter[t].pc = "idle"
    /\ svc.getter[t].calls < MaxCalls
    /\ svc' = [svc EXCEPT !.getter[t] =
                 [@ EXCEPT !.pc = "check", !.service = s,
                           !.calls = @ + 1]]
    /\ UNCHANGED <<documents, embedVars, summaryVars, answerVars, searchVars,
                   chunkVars, noteVars, docVars, splitVars>>

\* if _instance is None
CheckInstance(t) ==
    /\ svc.getter[t].pc = "check"
    /\ svc' = [svc EXCEPT !.getter[t].pc =
                 IF svc.instance[svc.getter[t].service] = NoInstance
                 THEN "construct" ELSE "return"]
    /\ UNCHANGED <<documents, embedVars, summaryVars, answerVars, searchVars,
                   chunkVars, noteVars, docVars, splitVars>>

\* EmbeddingService() / LLMService(): raises ValueError without an API key,
\* else builds a new client and a new service object.
ConstructService(t) ==
    LET s == svc.getter[t].service IN
    /\ svc.getter[t].pc = "construct"
    /\ svc' = IF svc.openai_api_key
              THEN [svc EXCEPT !.constructed[s] = @ + 1,
                               !.getter[t].created = svc.constructed[s] + 1,
                               !.getter[t].pc = "store"]
              ELSE [svc EXCEPT !.failed[s] = @ + 1,
                               !.getter[t] = [IdleGetter EXCEPT
                                                 !.calls = svc.getter[t].calls]]
    /\ UNCHANGED <<documents, embedVars, summaryVars, answerVars, searchVars,
                   chunkVars, noteVars, docVars, splitVars>>

\* _instance = <the new object>
StoreInstance(t) ==
    /\ svc.getter[t].pc = "store"
    /\ svc' = [svc EXCEPT !.instance[svc.getter[t].service] =
                             svc.getter[t].created,
                          !.getter[t].pc = "return"]
    /\ UNCHANGED <<documents, embedVars, summaryVars, answerVars, searchVars,
                   chunkVars, noteVars, docVars, splitVars>>

\* return _instance: the global is read again.
ReturnInstance(t) ==
    LET s == svc.getter[t].service IN
    /\ svc.getter[t].pc = "return"
    /\ svc' = [svc EXCEPT !.handed[s] = @ \cup {svc.instance[s]},
                          !.getter[t] = [IdleGetter EXCEPT
                                            !.calls = svc.getter[t].calls]]
    /\ UNCHANGED <<documents, embedVars, summaryVars, answerVars, searchVars,
                   chunkVars, noteVars, docVars, splitVars>>

GetterStep(t) ==
    \/ \E s \in Services : CallGetter(t, s)
    \/ CheckInstance(t)
    \/ ConstructService(t)
    \/ StoreInstance(t)
    \/ ReturnInstance(t)

\* ================================================ document lifecycle
\* The row of a deleted document: its id is not given out again.
DeletedDocument == [exists |-> FALSE, content |-> BlankContent, updated_at |-> -1]

\* The ids the documents table has given out so far.
UsedIds == {d \in DocIds : documents[d] # NoDocument}

\* The next value of the id sequence.
NextId == IF UsedIds = {} THEN 1 ELSE 1 + CHOOSE d \in UsedIds : \A o \in UsedIds : o <= d

IdleDocument == [pc |-> "idle", op |-> "", document_id |-> 0, error |-> "", status |-> 0, pre |-> <<>>]

\* The status of the delete_document route.
delete_document_route(e) ==
    IF e = "" THEN 200
    ELSE IF Catches("document.DocumentNotFoundError", e) THEN 404
    ELSE 500

\* create_document: one INSERT, committed; the id comes from the sequence.
CreateDocument(content) ==
    /\ drq.pc = "idle"
    /\ NextId \in DocIds
    /\ documents' = [documents EXCEPT ![NextId] =
                       [exists |-> TRUE, content |-> content, updated_at |-> now]]
    /\ drq' = [IdleDocument EXCEPT !.pc = "done", !.op = "create_document",
                                   !.document_id = NextId, !.status = 201]
    /\ UNCHANGED <<embedVars, summaryVars, answerVars, searchVars, chunkVars,
                serviceVars, noteVars, splitVars>>

\* delete_document: db.delete(document) and commit. The embeddings
\* relationship (backref of DocumentEmbedding.document) has neither a delete
\* cascade nor passive_deletes, so the flush first detaches the document's
\* embedding rows by setting their document_id to NULL; the column is NOT
\* NULL, the statement fails with IntegrityError and the service rolls back.
DeleteDocument(document_id) ==
    LET f == [IdleDocument EXCEPT !.pc = "done", !.op = "delete_document",
                                  !.document_id = document_id,
                                  !.pre = embeddings]
    IN
    /\ drq.pc = "idle"
    /\ IF ~documents[document_id].exists
       THEN /\ drq' = [f EXCEPT !.error = "document.DocumentNotFoundError",
                                !.status = delete_document_route(
                                             "document.DocumentNotFoundError")]
            /\ UNCHANGED documents
       ELSE IF embeddings[document_id] # <<>>
       THEN /\ drq' = [f EXCEPT !.error = "IntegrityError",
                                !.status = delete_document_route("IntegrityError")]
            /\ UNCHANGED documents
       ELSE /\ drq' = [f EXCEPT !.status = delete_document_route("")]
            /\ documents' = [documents EXCEPT ![document_id] = DeletedDocument]
    /\ UNCHANGED <<embedVars, summaryVars, answerVars, searchVars, chunkVars,
                serviceVars, noteVars, splitVars>>

\* The response is sent.
FinishDocument ==
    /\ drq.pc = "done"
    /\ drq' = IdleDocument
    /\ UNCHANGED <<documents, embedVars, summaryVars, answerVars, searchVars,
                chunkVars, serviceVars, noteVars, splitVars>>

InitStores ==
    /\ documents \in [DocIds -> {NoDocument} \cup
                        {[exists |-> TRUE, content |-> c, updated_at |-> 0] :
                            c \in Contents}]
    /\ embeddings = [d \in DocIds |-> <<>>]
    /\ erq = [p \in Procs |-> IdleFrame]
    /\ summaries = [d \in DocIds |-> <<>>]
    /\ now = 0
    /\ srq = [p \in Procs |-> IdleSummarize]
    /\ history = [d \in DocIds |-> NoHistory]
    /\ arq = IdleAnswer
    /\ sq = IdleSearch
    /\ cq = IdleChunk
    /\ nq = IdleNote
    /\ drq = IdleDocument
    /\ ccq = IdleSplit

Init == InitStores /\ svc = NoServices(TRUE)

\* Requests served one at a time.
NextEmbedSeq == EmbedStep(1)

SpecEmbedSeq == Init /\ [][NextEmbedSeq]_vars

\* embed_document requests served concurrently, one store operation at a time.
NextEmbed == \E p \in Procs : EmbedDocumentStep(p)

SpecEmbed == Init /\ [][NextEmbed]_vars

\* summarize_document requests served one after another, with document edits
\* and the clock interleaved between their steps.
NextSummary ==
    \/ SummarizeStep(1)
    \/ \E d \in SummaryDocIds, c \in Contents : UpdateDocument(d, c)
    \/ Tick

SpecSummary == Init /\ [][NextSummary]_vars

\* Embedding calls and answer_question calls, one call at a time: a call
\* starts only when no other call is in flight.
NextAnswer ==
    \/ /\ arq.pc = "idle" /\ nq.pc = "idle"
       /\ \E d \in DocIds, force \in BOOLEAN : StartEmbedDocument(1, d, force)
    \/ /\ arq.pc = "idle" /\ nq.pc = "idle"
       /\ \E force \in BOOLEAN : StartEmbedAll(1, force)
    \/ CheckExisting(1)
    \/ DeleteExisting(1)
    \/ ChunkAndEmbed(1)
    \/ InsertBatch(1)
    \/ NextDocument(1)
    \/ Finish(1)
    \/ /\ erq[1].pc = "idle" /\ nq.pc = "idle"
       /\ \E question \in Questions, top_k \in TopKs,
             similarity_threshold \in Thresholds, model \in Models :
             StartAnswer(question, top_k, similarity_threshold, model)
    \/ CountEmbeddings
    \/ EmbedQuestion
    \/ SearchChunks
    \/ GenerateAnswer
    \/ FinishAnswer
    \/ /\ erq[1].pc = "idle" /\ arq.pc = "idle"
       /\ \E text \in NoteTexts, model \in Models : StartNote(text, model)
    \/ CompleteNote
    \/ FinishNote

SpecAnswer == Init /\ [][NextAnswer]_vars

\* Embedding calls and direct searches, one call at a time.
NextSearch ==
    \/ /\ sq.pc = "idle"
       /\ \E d \in DocIds, force \in BOOLEAN : StartEmbedDocument(1, d, force)
    \/ /\ sq.pc = "idle"
       /\ \E force \in BOOLEAN : StartEmbedAll(1, force)
    \/ CheckExisting(1)
    \/ DeleteExisting(1)
    \/ ChunkAndEmbed(1)
    \/ InsertBatch(1)
    \/ NextDocument(1)
    \/ Finish(1)
    \/ /\ erq[1].pc = "idle"
       /\ \E query_embedding \in Directions, limit \in Limits,
             similarity_threshold \in Thresholds :
             SearchCall(query_embedding, limit, similarity_threshold)
    \/ SearchReturn

SpecSearch == Init /\ [][NextSearch]_vars

\* One embed_document writer and a reader in another session: every read
\* is one statement, placed anywhere between the writer's steps. The
\* searches ask for every row (no threshold, a limit no table exceeds).
ReadLimit == NumDocs * MaxChunks

NextRead ==
    \/ EmbedDocumentStep(1)
    \/ \E query_embedding \in Directions :
          SearchCall(query_embedding, ReadLimit, NoThreshold)
    \/ ReadCount
    \/ \E d \in DocIds : ReadCountByDocument(d)
    \/ SearchReturn

SpecRead == Init /\ [][NextRead]_vars

\* Document creations, updates and deletions between embedding requests,
\* one request at a time.
NextStore ==
    \/ /\ drq.pc = "idle"
       /\ \E d \in DocIds, force \in BOOLEAN : StartEmbedDocument(1, d, force)
    \/ /\ drq.pc = "idle"
       /\ \E force \in BOOLEAN : StartEmbedAll(1, force)
    \/ CheckExisting(1)
    \/ DeleteExisting(1)
    \/ ChunkAndEmbed(1)
    \/ InsertBatch(1)
    \/ NextDocument(1)
    \/ Finish(1)
    \/ /\ erq[1].pc = "idle"
       /\ \E content \in Contents : CreateDocument(content)
    \/ /\ erq[1].pc = "idle"
       /\ drq.pc = "idle"
       /\ \E d \in DocIds, content \in Contents : UpdateDocument(d, content)
    \/ /\ erq[1].pc = "idle"
       /\ \E d \in DocIds : DeleteDocument(d)
    \/ FinishDocument

SpecStore == Init /\ [][NextStore]_vars

\* chunk_document called with every text and every argument combination.
NextChunk ==
    \/ \E content \in Texts, args \in Arguments, preserve_sections \in BOOLEAN :
          ChunkCall(content, args[1], args[2], preserve_sections)
    \/ ChunkReturn

\* No document is needed to call the chunker.
InitChunk == Init /\ \A d \in DocIds : ~documents[d].exists

SpecChunk == InitChunk /\ [][NextChunk]_vars

\* _split_by_character_count called with every text and argument pair.
NextSplit ==
    \/ \E content \in SplitTexts, args \in SplitArguments :
          SplitCall(content, args[1], args[2])
    \/ SplitLoop
    \/ SplitExit
    \/ SplitReturn

SpecSplit == InitChunk /\ [][NextSplit]_vars

\* The interpreter runs the loop on: an iteration that can be taken is
\* taken, and so is the return.
SpecSplitFair ==
    SpecSplit /\ WF_vars(SplitLoop) /\ WF_vars(SplitExit)

\* A process with no document, with or without an API key.
InitService ==
    /\ InitStores
    /\ \A d \in DocIds : ~documents[d].exists
    /\ svc \in {NoServices(openai_api_key) : openai_api_key \in BOOLEAN}

\* The getters called by one thread: every call ends before the next begins.
NextServiceSeq == GetterStep(1)

SpecServiceSeq == InitService /\ [][NextServiceSeq]_vars

\* The getters called by several threads, which may be switched between any
\* two steps.
NextService == \E t \in Threads : GetterStep(t)

SpecService == InitService /\ [][NextService]_vars

\* ================================================================ claims
\* The frame of process p holds the outcome of an ended embed_document call
\* (a direct request, or one iteration of embed_all_documents).
CallEnded(p) ==
    \/ erq[p].op = "embed_document" /\ erq[p].pc = "done"
    \/ erq[p].op = "embed_all_documents" /\ erq[p].pc = "next"
                                         /\ erq[p].results # <<>>

\* No embed_document call is between its first and its last statement.
Quiescent == \A p \in Procs : erq[p].pc \in {"idle", "done", "next"}

\* The rows of document d are one row per chunk of its content: n rows,
\* each index of 0..n-1 on exactly one row, row i holding the i-th chunk.
OnePerChunk(d) ==
    LET rows == embeddings[d]
        chunks == DocumentChunks(documents[d].content)
    IN /\ Len(rows) = Len(chunks)
       /\ \A i \in 1..Len(chunks) :
             /\ Cardinality({k \in DOMAIN rows : rows[k].chunk_index = i - 1}) = 1
             /\ \E k \in DOMAIN rows : /\ rows[k].chunk_index = i - 1
                                        /\ rows[k].chunk_text = chunks[i]

\* C1: an embed_document call without force on an existing document that
\* already has a stored embedding returns skipped with zero counts, calls
\* the embedding provider not at all, writes nothing, and leaves the
\* document's rows as they were.
C1_SkipIsIdempotent ==
    \A p \in Procs :
        (/\ CallEnded(p)
         /\ ~erq[p].force
         /\ documents[erq[p].document_id].exists
         /\ erq[p].pre # <<>>)
        => /\ erq[p].result.skipped
           /\ erq[p].result.error = ""
           /\ erq[p].result.chunks_created = 0
           /\ erq[p].result.embeddings_created = 0
           /\ erq[p].calls = 0
           /\ erq[p].writes = 0
           /\ embeddings[erq[p].document_id] = erq[p].pre

C1_Witness ==
    \E p \in Procs :
        /\ CallEnded(p) /\ ~erq[p].force /\ erq[p].result.skipped
        /\ Len(erq[p].pre) = MaxChunks
        /\ embeddings[erq[p].document_id] = erq[p].pre

\* C2: after a successful embed_document call with force the document
\* holds exactly one row per chunk of its content, whatever it held
\* before: a second forced run leaves the rows of the first.
C2_ForceReplaces ==
    \A p \in Procs :
        (/\ CallEnded(p)
         /\ erq[p].force
         /\ erq[p].result.error = "")
        => /\ ~erq[p].result.skipped
           /\ OnePerChunk(erq[p].document_id)
           /\ erq[p].result.embeddings_created
                 = Len(embeddings[erq[p].document_id])
           /\ (erq[p].pre = EmbeddingsData(DocumentChunks(erq[p].content))
                 => embeddings[erq[p].document_id] = erq[p].pre)

C2_Witness ==
    \E p \in Procs :
        /\ CallEnded(p) /\ erq[p].force /\ erq[p].result.error = ""
        /\ Len(erq[p].pre) = MaxChunks
        /\ embeddings[erq[p].document_id] = erq[p].pre

\* C3: whenever no embed_document call is in progress, every document has
\* either no row or exactly one row per chunk, indexed 0..n-1.
C3_NoPartialEmbedding ==
    Quiescent =>
        \A d \in DocIds : embeddings[d] = <<>> \/ OnePerChunk(d)

C3_Witness ==
    /\ erq[1].op = "embed_all_documents" /\ erq[1].pc = "done"
    /\ \E k \in DOMAIN erq[1].results : erq[1].results[k].error # ""
    /\ \E d \in DocIds : Len(embeddings[d]) = MaxChunks /\ OnePerChunk(d)

\* C4 (as claimed): under concurrent embed_document calls every document
\* has no row or exactly one row per chunk, with no duplicate index.
C4_ConcurrentOnePerChunk ==
    \A d \in DocIds : embeddings[d] = <<>> \/ OnePerChunk(d)

\* The cache lookup of a summarize_document request for document d.
CacheLookup(d, raises) == StartSummarize(1, d, raises)

\* The row check_summary_cache reads is fresh: it exists, for a document
\* that exists, and is stamped no earlier than the document.
FreshRow(d) ==
    /\ documents[d].exists
    /\ HasSummary(d)
    /\ summaries[d][1].updated_at >= documents[d].updated_at

C6_CachedSummaryIsCurrent ==
    [][\A d \in SummaryDocIds, raises \in BOOLEAN :
          (CacheLookup(d, raises) /\ srq'[1].response.from_cache) =>
             srq'[1].response.summary[1] = documents[d].content]_vars

C8_OneRowLatestSave ==
    \A d \in DocIds :
        /\ Len(summaries[d]) <= 1
        /\ history[d].last_text # <<>> =>
              /\ Len(summaries[d]) = 1
              /\ summaries[d][1].summary_text = history[d].last_text
              /\ summaries[d][1].model_used = history[d].last_model
              /\ summaries[d][1].token_usage = history[d].last_usage

\* A save has overwritten the row of a document in place.
C8_Witness ==
    \E d \in SummaryDocIds :
        /\ srq[1].pc = "done" /\ srq[1].document_id = d
        /\ srq[1].saved = "updated"
        /\ Len(summaries[d]) = 1
        /\ summaries[d][1].summary_text = srq[1].response.summary

\* C9: an answer_question call with an empty or whitespace-only question
\* ends in ValueError before the store is read; one with a real question
\* against a store with no embedding row ends in NoEmbeddingsFoundError,
\* not in the canned answer; in both cases neither the embedding provider
\* nor the generation provider has been called.
C9_GuardsBeforeProviders ==
    arq.pc = "done" =>
       /\ QuestionIsBlank(arq.question) =>
             /\ arq.response.error = "ValueError"
             /\ arq.store_reads = 0
             /\ arq.embed_calls = 0 /\ arq.llm_calls = 0
       /\ (~QuestionIsBlank(arq.question) /\ StoredRows = {}) =>
             /\ arq.response.error = "NoEmbeddingsFoundError"
             /\ arq.response.answer = ""
             /\ arq.embed_calls = 0 /\ arq.llm_calls = 0

\* A real question was refused because no embedding is stored, although a
\* document exists.
C9_Witness ==
    /\ arq.pc = "done"
    /\ ~QuestionIsBlank(arq.question)
    /\ StoredRows = {}
    /\ \E d \in DocIds : documents[d].exists
    /\ arq.response.error = "NoEmbeddingsFoundError"

\* Every stored chunk is less similar to the question than the threshold of
\* the request asks.
AllBelowThreshold ==
    /\ arq.similarity_threshold # NoThreshold
    /\ \A r \in StoredRows :
          Similarity(RowDistance(r, Embed(arq.question)))
             < arq.similarity_threshold

\* C10: when the store holds an embedding and the search of an
\* answer_question call finds nothing, every stored chunk being below the
\* threshold, the call returns the canned answer with no sources, token
\* usage 0/0/0 and generation_time_ms 0, without error and without a call
\* to the generation provider.
C10_CannedAnswerOnNoMatch ==
    (/\ arq.pc = "done"
     /\ arq.store_reads = 2
     /\ StoredRows # {}
     /\ AllBelowThreshold) =>
       /\ arq.response.error = ""
       /\ arq.response.answer = "I couldn't find any relevant information"
       /\ arq.response.sources = <<>>
       /\ arq.response.token_usage = NoUsage
       /\ arq.response.generation_time_ms = 0
       /\ arq.llm_calls = 0

\* The canned answer was returned for a question whose threshold one stored
\* chunk misses by a quarter.
C10_Witness ==
    /\ arq.pc = "done"
    /\ ~QuestionIsBlank(arq.question)
    /\ StoredRows # {}
    /\ arq.similarity_threshold = 100
    /\ \E r \in StoredRows :
          Similarity(RowDistance(r, Embed(arq.question))) = 75
    /\ arq.response.answer = "I couldn't find any relevant information"
    /\ arq.response.sources = <<>>

RECURSIVE SumOfSucceeded(_, _)
\* The sum of a count over the entries of a result list that carry no error.
SumOfSucceeded(results, chunks) ==
    IF results = <<>> THEN 0
    ELSE (IF Head(results).error # "" THEN 0
          ELSE IF chunks THEN Head(results).chunks_created
          ELSE Head(results).embeddings_created)
         + SumOfSucceeded(Tail(results), chunks)

\* C11: a finished embed_all_documents holds one entry per listed document,
\* in listing order, whatever failed on the way; an entry without error is a
\* skip or carries one embedding per chunk of its document; processed +
\* skipped + failed entries is the number of listed documents, and the two
\* totals sum the entries without error.
C11_BatchIsolatesFailures ==
    LET f == erq[1] IN
    (f.op = "embed_all_documents" /\ f.pc = "done") =>
       /\ f.listed = get_documents
       /\ Len(f.results) = Len(f.listed)
       /\ \A i \in DOMAIN f.results :
             /\ f.results[i].document_id = f.listed[i]
             /\ f.results[i].error = "" =>
                   \/ f.results[i].skipped
                   \/ f.results[i].chunks_created
                         = Len(DocumentChunks(documents[f.listed[i]].content))
       /\ f.documents_processed + f.documents_skipped
             + Cardinality({i \in DOMAIN f.results : f.results[i].error # ""})
          = Len(f.listed)
       /\ f.total_chunks = SumOfSucceeded(f.results, TRUE)
       /\ f.total_embeddings = SumOfSucceeded(f.results, FALSE)

\* A batch whose first document failed went on to embed the second.
C11_Witness ==
    /\ erq[1].op = "embed_all_documents" /\ erq[1].pc = "done"
    /\ Len(erq[1].results) = NumDocs
    /\ erq[1].results[1].error # ""
    /\ erq[1].results[NumDocs].error = ""
    /\ erq[1].results[NumDocs].chunks_created = MaxChunks
    /\ erq[1].total_chunks = MaxChunks

\* C12 (as claimed): an embed_document call on a document whose content
\* yields more chunks than the provider's batch cap ends without error and
\* leaves one embedding row per chunk, in chunk order.
C12_LargeDocumentEmbeds ==
    \A p \in Procs :
       (/\ CallEnded(p)
        /\ documents[erq[p].result.document_id].exists
        /\ Len(DocumentChunks(erq[p].content)) > BatchCap) =>
          /\ erq[p].result.error = ""
          /\ OnePerChunk(erq[p].result.document_id)

\* The similarity score of stored row r for the query of the search call in
\* flight, in hundredths: 1 - distance / 2.
Score(r) == (200 - RowDistance(r, sq.query_embedding)) \div 2

\* The stored rows whose score reaches the threshold of the call (all rows
\* when the call gives none).
AtOrAboveThreshold ==
    {r \in StoredRows : \/ sq.similarity_threshold = NoThreshold
                        \/ Score(r) >= sq.similarity_threshold}

SameVectorAsQuery ==
    {r \in StoredRows : embeddings[r[1]][r[2]].embedding = sq.query_embedding}

\* C14 (as claimed): a search whose query is the vector of a stored chunk
\* returns that very chunk first, with a score above 0.99.
C14_OwnVectorIsTop ==
    sq.pc = "found" =>
       \A r \in SameVectorAsQuery :
          /\ sq.results # <<>>
          /\ sq.results[1].id = r
          /\ sq.results[1].similarity_score > 99

\* C14 (amended): a search whose query is the vector of a stored chunk
\* returns first a chunk with that same vector, with a score above 0.99;
\* it is that very chunk when no other stored chunk has the same vector.
C14_SameVectorIsTop ==
    sq.pc = "found" =>
       \A r \in SameVectorAsQuery :
          /\ sq.results # <<>>
          /\ sq.results[1].id \in SameVectorAsQuery
          /\ sq.results[1].similarity_score > 99
          /\ SameVectorAsQuery = {r} => sq.results[1].id = r

\* A search with the vector of a stored chunk, in a store that holds chunks
\* with other vectors, returned that chunk first.
C14_Witness ==
    /\ sq.pc = "found"
    /\ \E r \in StoredRows :
          /\ SameVectorAsQuery = {r}
          /\ sq.results # <<>>
          /\ sq.results[1].id = r
    /\ Cardinality(StoredRows) > 1

\* The arguments of the chunk_document call in hand pass its checks.
ValidParameters ==
    cq.max_chunk_size >= MinChunkSize /\ cq.overlap < cq.max_chunk_size

\* The text of the chunk_document call in hand, trimmed.
Trimmed == rstrip(lstrip(cq.content))

HasBoundary ==
    ParagraphBreaks(Trimmed, 0) # {} \/ SentenceBreaks(Trimmed, 0) # {}

\* C16 (as claimed): every chunk returned for a text with a paragraph or
\* sentence boundary is at most max_chunk_size long. (The fixed-width tier,
\* the only one allowed a tolerance, produces none of the chunks: it is
\* entered only when the sentence split returns no piece, and a split
\* always returns at least one.)
C16_ChunksWithinMaxSize ==
    (/\ cq.pc = "returned"
     /\ cq.error = ""
     /\ HasBoundary)
    => \A i \in DOMAIN cq.chunks : Len(cq.chunks[i]) <= cq.max_chunk_size

\* The last position of the run of non-whitespace characters that holds
\* position a.
RunLast(s, a) ==
    CHOOSE b \in a..Len(s) :
        /\ \A k \in a..b : s[k] \notin Whitespace
        /\ b = Len(s) \/ s[b + 1] \in Whitespace

\* The maximal runs of non-whitespace characters of s, as <<first, last>>
\* positions.
Runs(s) ==
    {<<a, RunLast(s, a)>> :
        a \in {a \in 1..Len(s) :
                 /\ s[a] \notin Whitespace
                 /\ a = 1 \/ s[a - 1] \in Whitespace}}

\* The characters first..last of s appear, contiguous, in chunk.
AppearsIn(s, first, last, chunk) ==
    \E k \in 0..(Len(chunk) - (last - first + 1)) :
        /\ chunk[k + 1] = s[first]
        /\ \A j \in 0..(last - first) : chunk[k + 1 + j] = s[first + j]

\* C17 (as claimed): every maximal run of non-whitespace characters of the
\* trimmed text appears intact in at least one returned chunk.
C17_ChunksCoverDocument ==
    (cq.pc = "returned" /\ cq.error = "")
    => \A run \in Runs(Trimmed) :
          \E i \in DOMAIN cq.chunks :
             AppearsIn(Trimmed, run[1], run[2], cq.chunks[i])

\* The characters of the run of s at positions run[1]..run[2].
RunText(s, run) == SubSeq(s, run[1], run[2])

\* The last run of non-whitespace characters of a chunk.
LastRun(chunk) ==
    LET runs == Runs(chunk)
    IN RunText(chunk, CHOOSE r \in runs : \A o \in runs : o[1] <= r[1])

\* The positions in the trimmed text where a chunk can end: the ends of the
\* runs that read like the chunk's last run.
EndsOf(chunk) ==
    LET last == LastRun(chunk)
    IN {run[2] : run \in {r \in Runs(Trimmed) :
                             /\ r[2] - r[1] + 1 = Len(last)
                             /\ RunText(Trimmed, r) = last}}

\* C18: a call with valid input returns at least one chunk, every chunk is
\* non-empty after trimming, and the chunks are in document order: each
\* chunk ends at the end of a word of the text, behind the end of the chunk
\* before it.
C18_ChunksNonEmptyInOrder ==
    (cq.pc = "returned" /\ cq.error = "")
    => LET ends == [i \in DOMAIN cq.chunks |-> EndsOf(cq.chunks[i])]
       IN /\ Len(cq.chunks) >= 1
          /\ \A i \in DOMAIN cq.chunks : strip(cq.chunks[i]) # <<>>
          /\ \A i \in DOMAIN cq.chunks : ends[i] # {}
          /\ \A i, j \in DOMAIN cq.chunks :
                i < j => \A e \in ends[i] : \A f \in ends[j] : e < f

\* A text with section markers, chunked with an overlap and
\* preserve_sections, came back as three chunks or more.
C18_Witness ==
    /\ cq.pc = "returned"
    /\ cq.error = ""
    /\ cq.preserve_sections
    /\ cq.overlap > 0
    /\ Cardinality(SoapStarts(Trimmed)) >= 2
    /\ Len(cq.chunks) >= 3

\* The call in hand is the one of the scenario: the four-section note,
\* max_chunk_size 10, preserve_sections on.
SoapExampleAtSizeTen ==
    /\ cq.pc = "returned"
    /\ cq.content = SoapExample
    /\ cq.max_chunk_size = 10
    /\ cq.preserve_sections

\* Some chunk of the result begins with the marker of this label.
SomeChunkBeginsWith(label) ==
    \E i \in DOMAIN cq.chunks :
        /\ Len(cq.chunks[i]) >= 2
        /\ cq.chunks[i][1] = label
        /\ cq.chunks[i][2] = ":"

C20_RejectsExactlyInvalidArguments ==
    cq.pc = "returned"
    => /\ cq.error \in {"", "ValueError"}
       /\ cq.error = "ValueError"
             <=> \/ Trimmed = <<>>
                 \/ cq.max_chunk_size < 100
                 \/ cq.overlap >= cq.max_chunk_size
       /\ cq.error = "ValueError" => cq.chunks = <<>>
       /\ cq.error = "" => cq.chunks # <<>>

\* A call whose only fault is an overlap equal to max_chunk_size has failed.
C20_Witness ==
    /\ cq.pc = "returned"
    /\ Trimmed # <<>>
    /\ cq.max_chunk_size >= 100
    /\ cq.overlap = cq.max_chunk_size
    /\ cq.error = "ValueError"

\* C21 (as claimed): each service is constructed at most once and every
\* caller of its getter is handed the same instance, also when several
\* threads make the first call together.
C21_OneInstancePerService ==
    \A s \in Services :
        /\ svc.constructed[s] <= 1
        /\ Cardinality(svc.handed[s]) <= 1

\* C22 (as claimed): an answer_question or summarize_note call that has
\* asked the generation provider either succeeds with a non-empty text or
\* fails with one of the provider errors; an empty or missing completion is
\* never returned as an empty answer or summary.
C22_NoEmptyTextOnSuccess ==
    /\ (arq.pc = "done" /\ arq.llm_calls > 0)
       => \/ arq.response.error = "" /\ arq.response.answer # ""
          \/ arq.response.error \in LLMErrors
    /\ (nq.pc = "done" /\ nq.llm_calls > 0)
       => \/ nq.result.error = "" /\ nq.result.summary # ""
          \/ nq.result.error \in LLMErrors

\* C23 (as claimed): an embed_document request for a document id that does
\* not exist is answered with status 404, and the store holds the rows it
\* held before.
C23_MissingDocumentIs404 ==
    \A p \in Procs :
        (/\ erq[p].pc = "done"
         /\ erq[p].op = "embed_document"
         /\ erq[p].result.error = "rag.DocumentNotFoundError")
        => /\ erq[p].status = 404
           /\ embeddings[erq[p].document_id] = erq[p].pre

\* The provider failures that pass with time: rate limit, timeout,
\* connection error, of the embedding and of the generation provider.
TransientErrors ==
    {"EmbeddingRateLimitError", "EmbeddingTimeoutError",
     "EmbeddingConnectionError", "LLMRateLimitError", "LLMTimeoutError",
     "LLMConnectionError"}

\* C24 (as claimed): a RAG request that ended with a transient provider
\* failure is answered with status 503, not with the 500 of unanticipated
\* failures.
C24_TransientFailureIs503 ==
    /\ \A p \in Procs :
         (/\ erq[p].pc = "done"
          /\ erq[p].op = "embed_document"
          /\ erq[p].result.error \in TransientErrors)
         => erq[p].status = 503
    /\ (arq.pc = "done" /\ arq.response.error \in TransientErrors)
       => arq.status = 503

\* C25 (as claimed): an embed_document call that failed after the document
\* was fetched has persisted nothing: the store holds for the document the
\* rows it held when the call began, with force and without.
C25_FailedEmbedLeavesStore ==
    (/\ erq[1].pc = "done"
     /\ erq[1].op = "embed_document"
     /\ erq[1].result.error \notin {"", "rag.DocumentNotFoundError"})
    => embeddings[erq[1].document_id] = erq[1].pre

\* The number of rows one insert batch of document d has: one per chunk of
\* its content, none when the content is rejected before the insert.
BatchSize(d) ==
    IF /\ documents[d].exists
       /\ ~ChunkRaises(documents[d].content)
       /\ ~BatchRejected(DocumentChunks(documents[d].content))
    THEN Len(DocumentChunks(documents[d].content))
    ELSE 0

\* The chunk indices of document d among the results of the reader's search.
SeenIndices(d) ==
    {sq.results[i].chunk_index :
        i \in {j \in DOMAIN sq.results : sq.results[j].document_id = d}}

\* C26: what a reader concurrent with an embed_document call observes of a
\* document is none or all of the rows of its insert batch (and all or none
\* of the rows a forced delete removes), never a part of them: a search
\* returns no chunk or every chunk of the document, a count by document is
\* zero or the batch size, and the total count is a sum of such counts.
C26_ReaderSeesWholeBatches ==
    sq.pc = "found" =>
        CASE sq.op = "search_similar_chunks" ->
                \A d \in DocIds :
                    \/ SeenIndices(d) = {}
                    \/ SeenIndices(d) = 0..(BatchSize(d) - 1)
          [] sq.op = "count_embeddings_by_document" ->
                sq.count \in {0, BatchSize(sq.document_id)}
          [] sq.op = "count_embeddings" ->
                \E part \in SUBSET DocIds :
                    sq.count = Cardinality(
                        {<<d, i>> \in DocIds \X (1..MaxChunks) :
                            d \in part /\ i <= BatchSize(d)})

\* C26 witness: while a forced re-embedding of a document that had two
\* rows is between its delete and its insert, a reader counts the rows of
\* that document and sees none of them.
C26_Witness ==
    /\ erq[1].pc = "insert"
    /\ erq[1].force
    /\ Len(erq[1].pre) = MaxChunks
    /\ sq.pc = "found"
    /\ sq.op = "count_embeddings_by_document"
    /\ sq.document_id = erq[1].document_id
    /\ sq.count = 0

\* The chunk texts of the current content of document d.
CurrentChunks(d) ==
    IF ChunkRaises(documents[d].content) THEN {}
    ELSE {DocumentChunks(documents[d].content)[i] :
            i \in DOMAIN DocumentChunks(documents[d].content)}

\* C27 (as claimed): once an embed_document(force = false) call has
\* completed without error, after whatever updates of the document, every
\* stored embedding of the document carries a chunk of its current content.
C27_EmbeddingsAreCurrent ==
    (/\ erq[1].pc = "done"
     /\ erq[1].op = "embed_document"
     /\ ~erq[1].force
     /\ erq[1].result.error = "")
    => \A k \in DOMAIN embeddings[erq[1].document_id] :
          embeddings[erq[1].document_id][k].chunk_text
              \in CurrentChunks(erq[1].document_id)

\* C28 (as claimed): every stored embedding references an existing
\* document, and the deletion of an existing document succeeds, removes
\* the document with all its embeddings, and leaves the embeddings of the
\* other documents as they were.
C28_DeleteCascades ==
    /\ \A d \in DocIds : embeddings[d] # <<>> => documents[d].exists
    /\ (/\ drq.pc = "done"
        /\ drq.op = "delete_document"
        /\ drq.error # "document.DocumentNotFoundError")
       => /\ drq.error = ""
          /\ ~documents[drq.document_id].exists
          /\ embeddings[drq.document_id] = <<>>
          /\ \A d \in DocIds \ {drq.document_id} : embeddings[d] = drq.pre[d]

\* C29 (as claimed): a text longer than max_chunk_size with no paragraph
\* and no sentence boundary is cut into slices of at most max_chunk_size
\* characters, never returned as a single over-long chunk.
C29_FallsThroughToFixedWidth ==
    (/\ cq.pc = "returned"
     /\ cq.error = ""
     /\ Len(Trimmed) > cq.max_chunk_size
     /\ ~HasBoundary)
    => /\ Len(cq.chunks) > 1
       /\ \A i \in DOMAIN cq.chunks : Len(cq.chunks[i]) <= cq.max_chunk_size

\* C30 (as claimed): every call of _split_by_character_count with a
\* non-empty content and 0 <= overlap < max_chunk_size returns, because
\* start is strictly greater after every iteration of the loop, also when
\* the right edge was moved back to a space.
C30_SplitTerminates ==
    /\ [][(ccq.pc = "loop" /\ ccq'.pc = "loop") => ccq'.start > ccq.start]_vars
    /\ (ccq.pc = "loop") ~> (ccq.pc = "returned")
====
